---- MODULE Spec2Model ----
(***************************************************************************)
(* State-machine model of the facial recognition system: the subject       *)
(* registry (database_utils.py), the Embedding Builder                     *)
(* (train_embeddings.py), the Classifier Trainer (train_classifier.py),    *)
(* the recognition loop (recognize_face.py: Match Engine, Liveness Filter, *)
(* Stability Gate, Access Logger) and the enrollment loop                  *)
(* (capture_faces.py).                                                     *)
(*                                                                         *)
(* Specifications: Spec (the whole system, frames a stability window       *)
(* apart), SpecGate and SpecFrames (one session, frame by frame),          *)
(* SpecMatch and SpecNorm (the Match Engine's queries and normalisation),  *)
(* SpecEnroll (enrollments), SpecTrain (training runs), SpecCache (the     *)
(* cached classifier bundle), SpecRegistry (registrations and deletions).  *)
(*                                                                         *)
(* Abstractions:                                                           *)
(*  - a descriptor vector is not represented; the distances of a query to  *)
(*    the reference records and the classifier's prediction are inputs of  *)
(*    each frame;                                                          *)
(*  - a subject's stored images are represented by one image;              *)
(*  - a subject's name is the ordinal of its registration, so that the     *)
(*    records of two registrations can be told apart;                      *)
(*  - time is in whole seconds, non-decreasing, measured from the entry    *)
(*    into recognize_from_camera (the loop only uses differences);         *)
(*  - the timestamp and cpf columns of a log row are not represented;      *)
(*  - a write of the access log that fails leaves the file as it was, and   *)
(*    so does a removal of an image directory that fails;                  *)
(*  - in the normalisation a vector is represented by its norm, in         *)
(*    fixed-point units of 1e-8;                                           *)
(*  - the trainer's dataset is represented by the number of descriptors    *)
(*    of each subject, and scikit-learn's split and fit by the conditions  *)
(*    under which they raise;                                              *)
(*  - distances are in hundredths, probabilities in percent.               *)
(***************************************************************************)
EXTENDS Integers, Sequences, FiniteSets, TLC

\* ------------------------------------------------------------------ bounds
MaxRegistrations == 2   \* total number of register calls
MaxTime == 6            \* the clock stops advancing here
MaxDt == 1              \* largest time between two frames
MaxLog == 2             \* frames are not processed once the log is this long
MaxStaticFrames == 10   \* the static counter is not incremented beyond this
MaxNumImages == 2       \* largest num_images of an enrollment
MaxLiveStable == 14     \* live_stable_frames is not incremented beyond this
MaxFrameCount == 10     \* frame_count is not incremented beyond this
MaxWarnings == 2        \* frames that would warn are not processed after this many
MaxSamples == 10        \* largest number of descriptors of a subject in the dataset
MaxMantissa == 9        \* norms are m * 10^e units for m up to this

\* ------------------------------------------------------- program constants
DEFAULT_THRESHOLD == 60         \* 0.6, in hundredths
LIVENESS_STATIC_FRAMES == 10
CLASSIFIER_MIN_PROBA == 80      \* 0.8, in percent
STABILITY_SECONDS == 3          \* timedelta(seconds=3)
STABLE_LIVE_FRAMES == 5         \* capture_faces.py
CAPTURE_INTERVAL == 5           \* capture_faces.py
TEST_SIZE == 20                 \* train_classifier.py: test_size = 0.2, in percent
ONE == 100000000                \* 1.0 in the unit of norms, 1e-8
EPSILON == 1                    \* recognize_face.py: the 1e-8 added to a norm

\* ------------------------------------------------------ values and inputs
UserIds == {1, 2}       \* register is not called when it would return another id
NoId == 0               \* Python None where a subject id is expected
NoTime == -1            \* Python None where a datetime is expected
NoMatch == [id |-> NoId, name |-> 0]    \* match is None
NoDist == -1            \* Python None where a distance is expected
NoNorm == -1            \* no norm computed yet
Thresholds == {DEFAULT_THRESHOLD, 90}
DistValues == {30, 60, 90}
ProbaValues == {79, 80}

VARIABLES
    users_json,             \* users.json: sequence of [id, name]
    registrations,          \* number of register_user calls so far
    images_dir,             \* images/: the ids whose directory holds an image
    user_dirs,              \* images/: the ids whose directory exists
    embeddings_pkl,         \* embeddings.pkl: sequence of [id, name]
    classifier_pkl,         \* face_classifier.pkl: set of [id, name] (meta); {} = absent
    _classifier_bundle,     \* process-wide cache of the loaded bundle; {} = None
    access_log,             \* access_log.csv rows: sequence of [user_id, name]
    now,                    \* datetime.now(), in seconds since the session started
    session,                \* "idle" | "running" (recognize_from_camera in its loop)
    active_user_ids, filtered_embeddings, classifier,
    prev_face_roi_gray,     \* TRUE when a previous crop is held
    static_frames,
    last_recognized_user_id, pending_user_id, pending_start_time,
    match,                  \* the match of the last frame, as handed to the gate
    is_live,                \* "None" | "True" | "False" for the last frame
    emitted,                \* TRUE when the last frame logged an access event
    returned_ids,           \* history: ids returned by register_user, in order
    run_start,              \* history: time of the first frame of the current run
                            \* of consecutive frames with the same accepted id
    live_run_start,         \* history: same, for consecutive live frames
    live_run_events,        \* history: events emitted during the current live run
    session_log_base,       \* history: length of the access log at session start
    other_since_event,      \* history: a frame with an accepted id other than the
                            \* last event's id occurred since that event
    crop_in,                \* history: the crop of the last frame: "none" (no usable
                            \* crop), "first" (no previous crop), "same" (mean
                            \* difference below the threshold), "diff", or
                            \* "diff_static" (differing, the crop before it having
                            \* been classified static)
    same_run,               \* history: length of the sequence of crops so far when it
                            \* started from an empty filter and every crop after the
                            \* first was "same"; else 0
    last_call,              \* history: the operation completed by the last step,
                            \* with its inputs and return value
    q_in, q_dists,          \* the query of the last call of the Match Engine or of
    q_threshold,            \* _find_best_match: classifier outcome, distances to
                            \* the reference records, threshold
    q_match,                \* the Match Engine's result for it
    q_best,                 \* _find_best_match's result for it: [match, dist]
    enroll_user_id,         \* capture_user_faces: user_id
    num_images, captured, frame_count, live_stable_frames,
    captured_now,           \* history: the last frame stored an image
    live_streak,            \* history: number of consecutive frames classified
                            \* live up to the last frame, counted up to
                            \* STABLE_LIVE_FRAMES
    empty_warnings,         \* history: number of empty-reference-set warnings
                            \* logged in this session
    csv_exists,             \* access_log.csv exists
    csv_headers,            \* access_log.csv: for each header row, the number of
                            \* event rows above it
    log_writes,             \* history: number of _log_access_event calls that wrote
    write_failed,           \* history: the last frame called _log_access_event and
                            \* the call failed
    cap_held,               \* the capture device opened by the last session call
                            \* is held (opened and not released)
    exit_path,              \* history: how the last step left a session call:
                            \* "none" (it did not), "not_opened", "quit",
                            \* "read_failure", "target", "raised"
    returned,               \* history: the value the call returned then (NoId for
                            \* None, and when it raised)
    y_counts,               \* the dataset the trainer loads: number of descriptors
                            \* of each subject
    stratify,               \* train_classifier: "unset" | "y" | "None"
    train_outcome,          \* train_classifier: "unset" | "empty" | "split_raised"
                            \* | "fit_raised" | "persisted"
    frame_steps,            \* history: the steps the last frame went through, in
                            \* the order in which the loop body ran them
    norm_of,                \* _find_best_match: the vector last normalised:
                            \* "none" | "db_vectors" | "query_embedding"
    vec_norm,               \* its L2 norm, in units of 1e-8
    norm_once,              \* the norm of the normalised vector
    norm_twice              \* the norm of the normalised vector, normalised again

registry == <<users_json, registrations, images_dir, user_dirs, returned_ids>>
stores == <<embeddings_pkl, classifier_pkl>>
loop == <<active_user_ids, filtered_embeddings, classifier, prev_face_roi_gray,
          static_frames, last_recognized_user_id, pending_user_id,
          pending_start_time, match, is_live, emitted, run_start,
          live_run_start, live_run_events, session_log_base,
          other_since_event, crop_in, same_run, empty_warnings,
          write_failed, frame_steps>>
query == <<q_in, q_dists, q_threshold, q_match, q_best>>
enroll == <<enroll_user_id, num_images, captured, frame_count, live_stable_frames,
            captured_now, live_streak>>
csv == <<csv_exists, csv_headers, log_writes>>
outcome == <<cap_held, exit_path, returned>>
train == <<y_counts, stratify, train_outcome>>
norms == <<norm_of, vec_norm, norm_once, norm_twice>>
vars == <<registry, stores, _classifier_bundle, access_log, now, session, loop,
          last_call, query, enroll, csv, outcome, train, norms>>

\* ------------------------------------------------------------ helpers
Range(s) == {s[i] : i \in 1..Len(s)}
Ids(s) == {s[i].id : i \in 1..Len(s)}
Max(S) == CHOOSE m \in S : \A x \in S : x <= m

\* The record of a completed operation: op names the function; failed is the
\* set of positions in images_info on which extraction failed; total is the
\* count returned by generate_embeddings; opened is cap.isOpened(); user_id
\* and deleted are the argument and the return value of the delete_user call
\* of a deletion in the application (NoId and FALSE elsewhere).
Call(op, failed, total, opened) ==
    [op |-> op, failed |-> failed, total |-> total, opened |-> opened,
     user_id |-> NoId, deleted |-> FALSE]

DeleteCall(op, failed, total, user_id, deleted) ==
    [op |-> op, failed |-> failed, total |-> total, opened |-> TRUE,
     user_id |-> user_id, deleted |-> deleted]

NoCall == Call("none", {}, 0, TRUE)

\* access_log.csv does not exist.
NoLogFile ==
    /\ csv_exists = FALSE
    /\ csv_headers = <<>>
    /\ log_writes = 0

\* No session call made yet.
NoOutcome ==
    /\ cap_held = FALSE
    /\ exit_path = "none"
    /\ returned = NoId

\* No training run on a dataset made yet.
NoTraining ==
    /\ y_counts = [u \in UserIds |-> 0]
    /\ stratify = "unset"
    /\ train_outcome = "unset"

\* No vector normalised yet.
NoNormalisation ==
    /\ norm_of = "none"
    /\ vec_norm = 0
    /\ norm_once = NoNorm
    /\ norm_twice = NoNorm

\* The step does not leave a session call.
NotAnExit ==
    /\ exit_path' = "none"
    /\ returned' = NoId
    /\ UNCHANGED cap_held

\* ------------------------------------------------------ database_utils.py
\* Variant that returns the largest id itself.
get_next_user_id_NoIncrement(users) ==
    IF users = <<>> THEN 1 ELSE Max(Ids(users))

get_next_user_id(users) ==
    IF users = <<>> THEN 1 ELSE Max(Ids(users)) + 1

register_user(name) ==
    LET user_id == get_next_user_id(users_json)
    IN  /\ users_json' = Append(users_json, [id |-> user_id, name |-> name])
        /\ returned_ids' = Append(returned_ids, user_id)

\* rm_ok = FALSE: shutil.rmtree raised (a file of the directory is in use or
\* not removable); the exception is logged and the directory is taken to be
\* left as it was.
delete_user(user_id, delete_images, rm_ok) ==
    LET remaining == SelectSeq(users_json, LAMBDA u : u.id # user_id)
    IN  IF Len(remaining) = Len(users_json)
        THEN UNCHANGED <<users_json, images_dir, user_dirs>>
        ELSE /\ users_json' = remaining
             /\ IF delete_images /\ user_id \in user_dirs /\ rm_ok
                THEN /\ images_dir' = images_dir \ {user_id}
                     /\ user_dirs' = user_dirs \ {user_id}
                ELSE UNCHANGED <<images_dir, user_dirs>>

\* What delete_user returns.
delete_user_returns(user_id) == user_id \in Ids(users_json)

\* A registration with its images (capture_user_faces having captured, or
\* ingest_lfw having copied): register, create the directory, store images.
\* When the capture device does not open, capture_user_faces returns before
\* registering. The capture loop itself is the subject of SpecEnroll.
\* Variant that registers before looking at the device.
Register_BeforeOpen(opened) ==
    /\ session = "idle"
    /\ registrations < MaxRegistrations
    /\ get_next_user_id(users_json) \in UserIds
    /\ registrations' = registrations + 1
    /\ register_user(registrations + 1)
    /\ IF opened
       THEN /\ images_dir' = images_dir \cup {get_next_user_id(users_json)}
            /\ user_dirs' = user_dirs \cup {get_next_user_id(users_json)}
       ELSE UNCHANGED <<images_dir, user_dirs>>
    /\ UNCHANGED <<query, enroll, csv, train, norms>>
    /\ cap_held' = FALSE
    /\ exit_path' = IF opened THEN "target" ELSE "not_opened"
    /\ returned' = IF opened THEN get_next_user_id(users_json) ELSE NoId
    /\ last_call' = Call("capture_user_faces", {}, 0, opened)
    /\ UNCHANGED <<stores, _classifier_bundle, access_log, now, session, loop>>

Register(opened) ==
    /\ session = "idle"
    /\ IF opened
       THEN /\ registrations < MaxRegistrations
            /\ get_next_user_id(users_json) \in UserIds
            /\ registrations' = registrations + 1
            /\ register_user(registrations + 1)
            /\ images_dir' = images_dir \cup {get_next_user_id(users_json)}
            /\ user_dirs' = user_dirs \cup {get_next_user_id(users_json)}
       ELSE UNCHANGED registry
    /\ UNCHANGED <<query, enroll, csv, train, norms>>
    /\ cap_held' = FALSE
    /\ exit_path' = IF opened THEN "target" ELSE "not_opened"
    /\ returned' = IF opened THEN get_next_user_id(users_json) ELSE NoId
    /\ last_call' = Call("capture_user_faces", {}, 0, opened)
    /\ UNCHANGED <<stores, _classifier_bundle, access_log, now, session, loop>>

\* ---------------------------------------------------- train_embeddings.py
\* The (user, image) pairs in the order _collect_image_paths lists them:
\* users in registry order, a user's images in file-name order.
RECURSIVE _collect_image_paths(_, _)
_collect_image_paths(users, images) ==
    IF users = <<>> THEN <<>>
    ELSE LET user == Head(users)
         IN  (IF user.id \in images
              THEN <<[id |-> user.id, name |-> user.name]>> ELSE <<>>)
             \o _collect_image_paths(Tail(users), images)

\* Variant in which one failed extraction ends the batch with nothing built.
BuiltEmbeddings_AbortOnFailure(images_info, failed) ==
    IF failed \cap (1..Len(images_info)) # {} THEN <<>> ELSE images_info

\* The embeddings list built from images_info when extraction fails on the
\* images whose positions are in failed.
BuiltEmbeddings(images_info, failed) ==
    LET kept == {i \in 1..Len(images_info) : i \notin failed}
        RECURSIVE Build(_)
        Build(i) == IF i > Len(images_info) THEN <<>>
                    ELSE (IF i \in kept THEN <<images_info[i]>> ELSE <<>>) \o Build(i + 1)
    IN  Build(1)

\* generate_embeddings over the registry users and the image directories
\* images: the content of embeddings.pkl afterwards (the file is written only
\* when the list is not empty).
generate_embeddings(users, images, failed) ==
    LET embeddings == BuiltEmbeddings(_collect_image_paths(users, images), failed)
    IN  IF embeddings = <<>> THEN embeddings_pkl ELSE embeddings

\* The count generate_embeddings returns.
generate_embeddings_total(users, images, failed) ==
    Len(BuiltEmbeddings(_collect_image_paths(users, images), failed))

\* The positions of images_info on which extraction failed.
FailedPositions(users, images, failed) ==
    failed \cap (1..Len(_collect_image_paths(users, images)))

GenerateEmbeddings(failed) ==
    /\ session = "idle"
    /\ embeddings_pkl' = generate_embeddings(users_json, images_dir, failed)
    /\ UNCHANGED <<query, enroll, csv, train, norms>>
    /\ NotAnExit
    /\ last_call' = Call("generate_embeddings",
                         FailedPositions(users_json, images_dir, failed),
                         generate_embeddings_total(users_json, images_dir, failed), TRUE)
    /\ UNCHANGED <<registry, classifier_pkl, _classifier_bundle, access_log, now,
                   session, loop>>

\* The deletion of a user in the application: delete_user with
\* delete_images=True, then, when it returned True, generate_embeddings over
\* what is left. The removal of the directory is attempted, and so can fail,
\* only when the user and the directory exist.
Delete(user_id, failed, rm_ok) ==
    /\ session = "idle"
    /\ ~rm_ok => (user_id \in Ids(users_json) /\ user_id \in user_dirs)
    /\ delete_user(user_id, TRUE, rm_ok)
    /\ LET remaining == SelectSeq(users_json, LAMBDA u : u.id # user_id)
           images == IF rm_ok THEN images_dir \ {user_id} ELSE images_dir
       IN  IF delete_user_returns(user_id)
           THEN /\ embeddings_pkl' = generate_embeddings(remaining, images, failed)
                /\ last_call' = DeleteCall("_delete_selected_user",
                                           FailedPositions(remaining, images, failed),
                                           generate_embeddings_total(remaining, images,
                                                                     failed),
                                           user_id, TRUE)
           ELSE /\ embeddings_pkl' = embeddings_pkl
                /\ last_call' = DeleteCall("delete_user", {}, 0, user_id, FALSE)
    /\ UNCHANGED <<query, enroll, csv, train, norms>>
    /\ NotAnExit
    /\ UNCHANGED <<registrations, returned_ids, classifier_pkl, _classifier_bundle,
                   access_log, now, session, loop>>

\* ---------------------------------------------------- train_classifier.py
\* train_classifier: rebuilds the embeddings, stops when none was built,
\* fits the SVC (fit_ok = FALSE: the split or the fit raised, as sklearn
\* does with a single class) and persists the bundle {model, meta}.
TrainClassifier(failed, fit_ok) ==
    LET built == BuiltEmbeddings(_collect_image_paths(users_json, images_dir), failed)
    IN  /\ session = "idle"
        /\ embeddings_pkl' = generate_embeddings(users_json, images_dir, failed)
        /\ UNCHANGED <<query, enroll, csv, train, norms>>
        /\ NotAnExit
        /\ last_call' = Call("train_classifier",
                             FailedPositions(users_json, images_dir, failed),
                             Len(built), TRUE)
        /\ classifier_pkl' =
              IF built # <<>> /\ fit_ok /\ Cardinality(Ids(built)) > 1
              THEN Range(built) ELSE classifier_pkl
        /\ UNCHANGED <<registry, _classifier_bundle, access_log, now, session, loop>>

\* --- train_classifier from the loaded dataset on (lines 78-124); counts[u]
\* is the number of rows of y that hold subject u.
RECURSIVE SumOver(_, _)
SumOver(f, S) ==
    IF S = {} THEN 0
    ELSE LET x == CHOOSE x \in S : TRUE
         IN  f[x] + SumOver(f, S \ {x})

\* np.unique(y)
Classes(counts) == {u \in DOMAIN counts : counts[u] > 0}

\* stratify=y if len(np.unique(y)) > 1 else None
Stratify(counts) ==
    IF Cardinality(Classes(counts)) > 1 THEN "y" ELSE "None"

\* The size of the test set: ceil(test_size * n).
TestSamples(n) == (n * TEST_SIZE + 99) \div 100

\* train_test_split raises ValueError when the train set would be empty
\* and, when it stratifies, when a class has fewer than 2 members or the
\* train or the test set would hold fewer samples than there are classes.
SplitRaises(counts, strat) ==
    LET n == SumOver(counts, DOMAIN counts)
        n_test == TestSamples(n)
        n_train == n - n_test
        n_classes == Cardinality(Classes(counts))
    IN  \/ n_train = 0
        \/ /\ strat = "y"
           /\ \/ \E u \in Classes(counts) : counts[u] < 2
              \/ n_train < n_classes
              \/ n_test < n_classes

\* SVC.fit raises ValueError when y_train holds a single class.
FitRaises(counts) == Cardinality(Classes(counts)) < 2

TrainOnDataset ==
    LET n == SumOver(y_counts, DOMAIN y_counts)
        strat == Stratify(y_counts)
        result == IF n = 0 THEN "empty"
                  ELSE IF SplitRaises(y_counts, strat) THEN "split_raised"
                  ELSE IF FitRaises(y_counts) THEN "fit_raised"
                  ELSE "persisted"
    IN  /\ session = "idle"
        /\ train_outcome = "unset"
        /\ stratify' = IF n = 0 THEN "unset" ELSE strat
        /\ train_outcome' = result
        /\ classifier_pkl' =
              IF result = "persisted"
              THEN {r \in Range(users_json) : r.id \in Classes(y_counts)}
              ELSE classifier_pkl
        /\ last_call' = Call("train_classifier:dataset", {}, n, TRUE)
        /\ NotAnExit
        /\ UNCHANGED <<registry, embeddings_pkl, _classifier_bundle, access_log, now,
                       session, loop, query, enroll, csv, y_counts, norms>>

\* The process ends and a new one starts: module globals are re-initialised.
RestartProcess ==
    /\ session = "idle"
    /\ _classifier_bundle # {}
    /\ _classifier_bundle' = {}
    /\ UNCHANGED <<query, enroll, csv, train, norms>>
    /\ NotAnExit
    /\ last_call' = NoCall
    /\ UNCHANGED <<registry, stores, access_log, now, session, loop>>

\* ------------------------------------------------------ recognize_face.py
\* _load_classifier_bundle: the cached bundle when there is one, else the
\* file's content (None when the file is absent), which is then cached.
_load_classifier_bundle ==
    IF _classifier_bundle # {} THEN _classifier_bundle ELSE classifier_pkl

\* filtered_embeddings: the records whose id is an active user's.
FilterEmbeddings(embeddings, active) ==
    SelectSeq(embeddings, LAMBDA e : e.id \in active)

\* The locals of recognize_from_camera before its loop and after its return.
LoopReset ==
    /\ prev_face_roi_gray' = FALSE
    /\ static_frames' = 0
    /\ last_recognized_user_id' = NoId
    /\ pending_user_id' = NoId
    /\ pending_start_time' = NoTime
    /\ match' = NoMatch
    /\ is_live' = "None"
    /\ emitted' = FALSE
    /\ run_start' = NoTime
    /\ live_run_start' = NoTime
    /\ live_run_events' = 0
    /\ other_since_event' = FALSE
    /\ crop_in' = "none"
    /\ same_run' = 0
    /\ empty_warnings' = 0
    /\ write_failed' = FALSE
    /\ frame_steps' = <<>>

\* Variant that writes the filtered records back to embeddings.pkl.
StartSession_PruneStore(opened) ==
    /\ session = "idle"
    /\ _classifier_bundle' = _load_classifier_bundle
    /\ IF opened
       THEN /\ session' = "running"
            /\ active_user_ids' = Ids(users_json)
            /\ filtered_embeddings' = FilterEmbeddings(embeddings_pkl, Ids(users_json))
            /\ classifier' = _load_classifier_bundle
            /\ session_log_base' = Len(access_log)
       ELSE UNCHANGED <<session, active_user_ids, filtered_embeddings, classifier,
                        session_log_base>>
    /\ LoopReset
    /\ UNCHANGED <<query, enroll, csv, train, norms>>
    /\ cap_held' = opened
    /\ exit_path' = IF opened THEN "none" ELSE "not_opened"
    /\ returned' = NoId
    /\ last_call' = Call("recognize_from_camera", {}, 0, opened)
    /\ embeddings_pkl' = FilterEmbeddings(embeddings_pkl, Ids(users_json))
    /\ UNCHANGED <<registry, classifier_pkl, access_log, now>>

\* recognize_from_camera up to the loop; opened = cap.isOpened().
StartSession(opened) ==
    /\ session = "idle"
    /\ _classifier_bundle' = _load_classifier_bundle
    /\ IF opened
       THEN /\ session' = "running"
            /\ active_user_ids' = Ids(users_json)
            /\ filtered_embeddings' = FilterEmbeddings(embeddings_pkl, Ids(users_json))
            /\ classifier' = _load_classifier_bundle
            /\ session_log_base' = Len(access_log)
       ELSE UNCHANGED <<session, active_user_ids, filtered_embeddings, classifier,
                        session_log_base>>
    /\ LoopReset
    /\ UNCHANGED <<query, enroll, csv, train, norms>>
    /\ cap_held' = opened
    /\ exit_path' = IF opened THEN "none" ELSE "not_opened"
    /\ returned' = NoId
    /\ last_call' = Call("recognize_from_camera", {}, 0, opened)
    /\ UNCHANGED <<registry, stores, access_log, now>>

\* The loop's exits: the quit key polled at the end of an iteration
\* (cause = "quit"), or cap.read() failing at the start of the next one
\* (cause = "read_failure"). The finally block releases the device and the
\* windows; the function returns None.
EndSession(cause) ==
    /\ session = "running"
    /\ session' = "idle"
    /\ active_user_ids' = {}
    /\ filtered_embeddings' = <<>>
    /\ classifier' = {}
    /\ session_log_base' = 0
    /\ now' = 0
    /\ LoopReset
    /\ UNCHANGED <<query, enroll, csv, train, norms>>
    /\ cap_held' = FALSE
    /\ exit_path' = cause
    /\ returned' = NoId
    /\ last_call' = NoCall
    /\ UNCHANGED <<registry, stores, _classifier_bundle, access_log>>


\* --- Match Engine
\* Variant that trusts the classifier's classes (no active-user check).
ClassifierAccepts_NoActiveCheck(best_proba, predicted_id, active) ==
    best_proba >= CLASSIFIER_MIN_PROBA

\* The classifier's result is taken when the probability is high enough and
\* the predicted id is an active user's.
ClassifierAccepts(best_proba, predicted_id, active) ==
    best_proba >= CLASSIFIER_MIN_PROBA /\ predicted_id \in active

\* What the classifier can do on a frame: raise, or predict one of its
\* classes with some probability.
ClassifierInputs(clf) ==
    IF clf = {} THEN {[raises |-> FALSE, predicted_id |-> NoId, best_proba |-> 0]}
    ELSE {[raises |-> TRUE, predicted_id |-> NoId, best_proba |-> 0]} \cup
         {[raises |-> FALSE, predicted_id |-> r.id, best_proba |-> p] :
             r \in clf, p \in ProbaValues}

ClassifierPath(clf, in, active) ==
    IF clf = {} \/ in.raises THEN NoMatch
    ELSE IF ClassifierAccepts(in.best_proba, in.predicted_id, active)
         THEN LET subject_meta == CHOOSE r \in clf : r.id = in.predicted_id
              IN  [id |-> in.predicted_id, name |-> subject_meta.name]
         ELSE NoMatch

\* np.argmin: the first index of the smallest distance.
ArgMin(dists) ==
    CHOOSE i \in DOMAIN dists :
        /\ \A j \in DOMAIN dists : dists[i] <= dists[j]
        /\ \A j \in DOMAIN dists : j < i => dists[j] > dists[i]

\* Variant that accepts a distance equal to the threshold.
_find_best_match_AcceptEqual(dists, embeddings, threshold) ==
    IF embeddings = <<>> THEN NoMatch
    ELSE LET idx == ArgMin(dists)
         IN  IF dists[idx] <= threshold THEN embeddings[idx] ELSE NoMatch

\* dists[i] is the normalised L2 distance of the query to embeddings[i].
_find_best_match(dists, embeddings, threshold) ==
    IF embeddings = <<>> THEN NoMatch
    ELSE LET idx == ArgMin(dists)
         IN  IF dists[idx] < threshold THEN embeddings[idx] ELSE NoMatch

\* Variant in which a classifier's answer, accepted or not, is final.
MatchEngine_NoFallThrough(clf, in, dists, embeddings, active) ==
    IF clf # {} /\ ~in.raises THEN ClassifierPath(clf, in, active)
    ELSE IF embeddings = <<>> THEN NoMatch
    ELSE _find_best_match(dists, embeddings, DEFAULT_THRESHOLD)

MatchEngine(clf, in, dists, embeddings, active) ==
    LET m == ClassifierPath(clf, in, active)
    IN  IF m # NoMatch THEN m
        ELSE IF embeddings = <<>> THEN NoMatch
        ELSE _find_best_match(dists, embeddings, DEFAULT_THRESHOLD)

\* --- the normalisation of _find_best_match (lines 130-131 and 135-136).
\* A vector is represented by its L2 norm, in units of 1e-8: the division
\* scales it along its direction, so the norm of the difference of two of
\* its multiples is the difference of their norms. The arithmetic is
\* fixed-point (float32 has a resolution of 6e-8 near 1).
\* Variant that scales by a constant instead of by the norm.
Normalize_FixedScale(n) == n \div 2

\* The norm of v / (norm(v) + 1e-8) for norm(v) = n: floor(n * ONE / (n +
\* EPSILON)), written as ONE - ceil(ONE * EPSILON / (n + EPSILON)) to stay
\* within 32 bits.
Normalize(n) ==
    ONE - ((ONE * EPSILON + (n + EPSILON) - 1) \div (n + EPSILON))

RECURSIVE Pow10(_)
Pow10(e) == IF e = 0 THEN 1 ELSE 10 * Pow10(e - 1)

\* Norms from 1e-8 to 9.0, the zero vector, and 20.0.
NormValues ==
    {0, 20 * ONE} \cup {m * Pow10(e) : m \in 1..MaxMantissa, e \in 0..8}

Abs(x) == IF x < 0 THEN -x ELSE x

\* The reference vectors (db_vectors) or the query are normalised, and the
\* result normalised again.
NormalizeTwice(of) ==
    /\ norm_of = "none"
    /\ norm_of' = of
    /\ norm_once' = Normalize(vec_norm)
    /\ norm_twice' = Normalize(Normalize(vec_norm))
    /\ last_call' = Call("_find_best_match:normalize", {}, 0, TRUE)
    /\ NotAnExit
    /\ UNCHANGED <<registry, stores, _classifier_bundle, access_log, now, session,
                   loop, query, enroll, csv, train, vec_norm>>

\* The distance _find_best_match returns with the record.
_find_best_match_dist(dists, embeddings) ==
    IF embeddings = <<>> THEN NoDist ELSE dists[ArgMin(dists)]

\* No enrollment made yet.
NoEnrollment ==
    /\ enroll_user_id = NoId
    /\ num_images = 0
    /\ captured = 0
    /\ frame_count = 0
    /\ live_stable_frames = 0
    /\ captured_now = FALSE
    /\ live_streak = 0

\* No query made yet.
NoQuery ==
    /\ q_in = [raises |-> FALSE, predicted_id |-> NoId, best_proba |-> 0]
    /\ q_dists = <<>>
    /\ q_threshold = DEFAULT_THRESHOLD
    /\ q_match = NoMatch
    /\ q_best = [match |-> NoMatch, dist |-> NoDist]

\* The Match Engine applied to one query of a running session.
MatchEngineQuery(in, dists) ==
    /\ session = "running"
    /\ q_in' = in
    /\ q_dists' = dists
    /\ q_match' = MatchEngine(classifier, in, dists, filtered_embeddings,
                              active_user_ids)
    /\ last_call' = Call("match_engine", {}, 0, TRUE)
    /\ UNCHANGED <<q_threshold, q_best, enroll, csv, train, norms>>
    /\ NotAnExit
    /\ UNCHANGED <<registry, stores, _classifier_bundle, access_log, now, session,
                   loop>>

\* _find_best_match applied to one query over the session's reference records.
FindBestMatchQuery(dists, threshold) ==
    /\ session = "running"
    /\ q_dists' = dists
    /\ q_threshold' = threshold
    /\ q_best' = [match |-> _find_best_match(dists, filtered_embeddings, threshold),
                  dist |-> _find_best_match_dist(dists, filtered_embeddings)]
    /\ last_call' = Call("_find_best_match", {}, 0, TRUE)
    /\ UNCHANGED <<q_in, q_match, enroll, csv, train, norms>>
    /\ NotAnExit
    /\ UNCHANGED <<registry, stores, _classifier_bundle, access_log, now, session,
                   loop>>

\* --- Liveness Filter
\* Variant that never resets the counter.
StaticFramesUpdate_NoReset(prev, static, similar) ==
    IF prev /\ similar THEN static + 1 ELSE static

StaticFramesUpdate(prev, static, similar) ==
    IF prev /\ similar THEN static + 1 ELSE 0

IsLive(static) ==
    IF static >= LIVENESS_STATIC_FRAMES THEN "False" ELSE "True"

\* The locals of recognize_from_camera other than the Liveness Filter's.
gate_state == <<active_user_ids, filtered_embeddings, classifier,
                last_recognized_user_id, pending_user_id, pending_start_time,
                match, emitted, run_start, live_run_start, live_run_events,
                session_log_base, other_since_event, empty_warnings,
                write_failed>>

\* The crop a frame hands to the filter: roi = a usable face region was
\* found; prev = a previous crop is held; similar = the mean absolute
\* difference to it is below LIVENESS_DIFF_THRESHOLD; static = the counter
\* before the frame.
CropOf(roi, prev, similar, static) ==
    IF ~roi THEN "none"
    ELSE IF ~prev THEN "first"
    ELSE IF similar THEN "same"
    ELSE IF static >= LIVENESS_STATIC_FRAMES THEN "diff_static" ELSE "diff"

SameRunUpdate(run, crop) ==
    CASE crop = "none" -> run
      [] crop = "first" -> 1
      [] crop = "same" -> IF run > 0 THEN run + 1 ELSE 0
      [] OTHER -> 0

\* --- Stability Gate
\* Variant that does not compare with the last confirmed user.
GateConfirms_NoLastCheck(start, t, current_user_id, last) ==
    /\ start # NoTime
    /\ t - start >= STABILITY_SECONDS

GateConfirms(start, t, current_user_id, last) ==
    /\ start # NoTime
    /\ t - start >= STABILITY_SECONDS
    /\ current_user_id # last

\* Variant that starts or continues a window whatever the classification.
GateRuns_IgnoreLiveness(m, live) == m # NoMatch

\* The gate's block runs for a match on a frame not classified static
\* (match is not None and is_live is not False).
GateRuns(m, live) == m # NoMatch /\ live # "False"

\* Variant that clears the candidate on every frame without a match.
ResetsGate_AlsoWithoutFace(got, m) == m = NoMatch

\* The candidate and its start are cleared when the frame has a face and
\* no match is left after the active-user check; the statement is inside the
\* block that a frame without a representation skips.
ResetsGate(got, m) == got /\ m = NoMatch

\* Variant that records the confirmed user only when its row was written.
LastRecognizedAfterConfirm_OnlyWhenWritten(current_user_id, last, ok) ==
    IF ok THEN current_user_id ELSE last

\* last_recognized_user_id after a confirmation: the assignment precedes
\* the call of _log_access_event and does not depend on its outcome.
LastRecognizedAfterConfirm(current_user_id, last, ok) == current_user_id

\* The steps of a loop iteration of recognize_from_camera, in source order:
\* "represent" (DeepFace.represent, 230-247), "match" (the Match Engine,
\* 250-291), "liveness" (309-330), "gate" (the Stability Gate's update,
\* 333-350), "confirm" (last_recognized_user_id assigned, 352), "log"
\* (_log_access_event called, 356), "reverify" (the match's id checked
\* against active_user_ids, 492-499).
FrameSteps(got, roi, gate, confirm, m) ==
    <<"represent">>
    \o (IF got THEN <<"match">> ELSE <<>>)
    \o (IF roi THEN <<"liveness">> ELSE <<>>)
    \o (IF gate THEN <<"gate">> ELSE <<>>)
    \o (IF confirm THEN <<"confirm", "log">> ELSE <<>>)
    \o (IF got /\ m # NoMatch THEN <<"reverify">> ELSE <<>>)

\* --- Access Logger
LogRow(user) ==
    [user_id |-> user.id, name |-> user.name]

\* The file as _log_access_event finds it.
LogFile == [exists |-> csv_exists, headers |-> csv_headers, rows |-> access_log]

\* Variant that writes the header on every call.
_log_access_event_AlwaysHeader(file, user, ok) ==
    IF ~ok THEN file
    ELSE [exists |-> TRUE,
          headers |-> Append(file.headers, Len(file.rows)),
          rows |-> Append(file.rows, LogRow(user))]

\* Variant that opens the file for writing instead of appending.
_log_access_event_Truncate(file, user, ok) ==
    IF ~ok THEN file
    ELSE [exists |-> TRUE,
          headers |-> IF file.exists THEN <<>> ELSE <<0>>,
          rows |-> <<LogRow(user)>>]

\* _log_access_event: the file after the call. ok = FALSE: mkdir, exists or
\* open raised (the file is locked or not writable), nothing was written and
\* the except clause logged the exception. A failure after the file was
\* opened is not represented.
_log_access_event(file, user, ok) ==
    IF ~ok THEN file
    ELSE [exists |-> TRUE,
          headers |-> IF file.exists THEN file.headers
                      ELSE Append(file.headers, Len(file.rows)),
          rows |-> Append(file.rows, LogRow(user))]

\* Variant in which the exception of a failed write leaves the loop.
SessionAfterWrite_Propagate(ok) ==
    IF ok THEN "running" ELSE "idle"

\* The session after a call of _log_access_event: the call returns, failed
\* or not, and the loop goes on.
SessionAfterWrite(ok) == "running"

SessionEvents == SubSeq(access_log, session_log_base + 1, Len(access_log))

LastEventId == IF SessionEvents = <<>> THEN NoId
               ELSE SessionEvents[Len(SessionEvents)].user_id

\* --- one iteration of the loop of recognize_from_camera
\* dt: time since the previous frame; reps: "face", "noface" (DeepFace found
\* no face) or "error" (any other exception); m: the Match Engine's result;
\* box_ok: facial_area is a dict with a non-empty clamped region;
\* similar: mean_diff < LIVENESS_DIFF_THRESHOLD; write_ok: _log_access_event,
\* when called, writes its row.
Frame(dt, reps, m, box_ok, similar, write_ok) ==
    LET t == now + dt
        got == reps = "face"
        accepted == IF got THEN m ELSE NoMatch
        roi == got /\ box_ok
        new_static == IF roi
                      THEN StaticFramesUpdate(prev_face_roi_gray, static_frames, similar)
                      ELSE static_frames
        live == IF roi THEN IsLive(new_static) ELSE "None"
        \* lines 333-489
        gate == roi /\ GateRuns(accepted, live)
        current_user_id == accepted.id
        restart == gate /\ pending_user_id # current_user_id
        confirm == /\ gate
                   /\ ~restart
                   /\ GateConfirms(pending_start_time, t, current_user_id,
                                   last_recognized_user_id)
        \* lines 492-518
        rechecked == IF accepted # NoMatch /\ accepted.id \in active_user_ids
                     THEN accepted ELSE NoMatch
        reset == ResetsGate(got, rechecked)
        \* line 356
        written == IF confirm THEN _log_access_event(LogFile, accepted, write_ok)
                   ELSE LogFile
        logged == confirm /\ write_ok
        \* lines 280-285
        warn == got /\ m = NoMatch /\ filtered_embeddings = <<>>
        \* history
        live_frame == accepted # NoMatch /\ live = "True"
        continuing == accepted # NoMatch /\ match.id = accepted.id
        continuing_live == live_frame /\ continuing /\ is_live = "True"
        crop == CropOf(roi, prev_face_roi_gray, similar, static_frames)
    IN  /\ session = "running"
        /\ Len(access_log) < MaxLog
        /\ t <= MaxTime
        /\ ~confirm => write_ok    \* an input of the frames that call the logger
        /\ (roi /\ prev_face_roi_gray /\ similar) => static_frames < MaxStaticFrames
        /\ warn => empty_warnings < MaxWarnings
        /\ now' = t
        /\ prev_face_roi_gray' = (prev_face_roi_gray \/ roi)
        /\ static_frames' = new_static
        /\ pending_user_id' = IF reset THEN NoId
                              ELSE IF restart THEN current_user_id
                              ELSE pending_user_id
        /\ pending_start_time' = IF reset THEN NoTime
                                 ELSE IF restart THEN t
                                 ELSE pending_start_time
        /\ last_recognized_user_id' =
              IF confirm
              THEN LastRecognizedAfterConfirm(current_user_id,
                                              last_recognized_user_id, write_ok)
              ELSE last_recognized_user_id
        /\ access_log' = written.rows
        /\ csv_exists' = written.exists
        /\ csv_headers' = written.headers
        /\ log_writes' = IF logged THEN log_writes + 1 ELSE log_writes
        /\ write_failed' = (confirm /\ ~write_ok)
        /\ session' = IF confirm THEN SessionAfterWrite(write_ok) ELSE session
        /\ empty_warnings' = IF warn THEN empty_warnings + 1 ELSE empty_warnings
        /\ match' = accepted
        /\ is_live' = live
        /\ emitted' = logged
        /\ run_start' = IF accepted = NoMatch THEN NoTime
                        ELSE IF continuing THEN run_start ELSE t
        /\ live_run_start' = IF ~live_frame THEN NoTime
                             ELSE IF continuing_live THEN live_run_start ELSE t
        /\ live_run_events' = IF ~live_frame THEN 0
                              ELSE (IF continuing_live THEN live_run_events ELSE 0)
                                   + (IF logged THEN 1 ELSE 0)
        /\ other_since_event' =
              IF logged THEN FALSE
              ELSE \/ other_since_event
                   \/ (LastEventId # NoId /\ accepted.id \notin {NoId, LastEventId})
        /\ crop_in' = crop
        /\ same_run' = SameRunUpdate(same_run, crop)
        /\ frame_steps' = FrameSteps(got, roi, gate, confirm, accepted)
        /\ UNCHANGED <<query, enroll, train, norms>>
        /\ NotAnExit
        /\ last_call' = NoCall
        /\ UNCHANGED <<registry, stores, _classifier_bundle, active_user_ids,
                       filtered_embeddings, classifier, session_log_base>>

\* _find_best_match raises on a frame (a reference record without an
\* embedding or of another dimension than the query, on which np.stack or
\* the subtraction raises). The call is outside the loop's own try blocks:
\* the exception leaves the function through the finally block.
FrameException ==
    /\ session = "running"
    /\ filtered_embeddings # <<>>
    /\ session' = "idle"
    /\ active_user_ids' = {}
    /\ filtered_embeddings' = <<>>
    /\ classifier' = {}
    /\ session_log_base' = 0
    /\ now' = 0
    /\ LoopReset
    /\ UNCHANGED <<query, enroll, csv, train, norms>>
    /\ cap_held' = FALSE
    /\ exit_path' = "raised"
    /\ returned' = NoId
    /\ last_call' = Call("recognize_from_camera:raised", {}, 0, TRUE)
    /\ UNCHANGED <<registry, stores, _classifier_bundle, access_log>>

\* The results the Match Engine can produce on a frame of this session.
MatchResults ==
    {MatchEngine(classifier, in, dists, filtered_embeddings, active_user_ids) :
        in \in ClassifierInputs(classifier),
        dists \in [1..Len(filtered_embeddings) -> DistValues]}

\* A frame without a usable extraction leaves m, box_ok and similar unused; a
\* frame without a usable region leaves similar unused. The access log is
\* writable.
FrameAt(dt) ==
    \/ \E reps \in {"noface", "error"} : Frame(dt, reps, NoMatch, FALSE, FALSE, TRUE)
    \/ \E m \in MatchResults :
          \/ Frame(dt, "face", m, FALSE, FALSE, TRUE)
          \/ \E similar \in BOOLEAN : Frame(dt, "face", m, TRUE, similar, TRUE)

\* Frames at any whole second.
FrameStep == \E dt \in 0..MaxDt : FrameAt(dt)

\* Frames of a moving face (consecutive crops differ) whose times are whole
\* stability windows apart; the write of an access event succeeds or fails.
FrameStepCoarse ==
    \E dt \in {0, STABILITY_SECONDS} :
        \/ \E reps \in {"noface", "error"} : Frame(dt, reps, NoMatch, FALSE, FALSE, TRUE)
        \/ \E m \in MatchResults, box_ok, write_ok \in BOOLEAN :
              Frame(dt, "face", m, box_ok, FALSE, write_ok)

\* ------------------------------------------------------------ specification
Init ==
    /\ users_json = <<>>
    /\ registrations = 0
    /\ images_dir = {}
    /\ user_dirs = {}
    /\ embeddings_pkl = <<>>
    /\ classifier_pkl = {}
    /\ _classifier_bundle = {}
    /\ access_log = <<>>
    /\ now = 0
    /\ session = "idle"
    /\ active_user_ids = {}
    /\ filtered_embeddings = <<>>
    /\ classifier = {}
    /\ prev_face_roi_gray = FALSE
    /\ static_frames = 0
    /\ last_recognized_user_id = NoId
    /\ pending_user_id = NoId
    /\ pending_start_time = NoTime
    /\ match = NoMatch
    /\ is_live = "None"
    /\ emitted = FALSE
    /\ returned_ids = <<>>
    /\ run_start = NoTime
    /\ live_run_start = NoTime
    /\ live_run_events = 0
    /\ session_log_base = 0
    /\ other_since_event = FALSE
    /\ crop_in = "none"
    /\ same_run = 0
    /\ last_call = NoCall
    /\ NoQuery
    /\ NoEnrollment
    /\ empty_warnings = 0
    /\ frame_steps = <<>>
    /\ write_failed = FALSE
    /\ NoLogFile
    /\ NoOutcome
    /\ NoNormalisation
    /\ NoTraining

ImagePositions == 1..Cardinality(UserIds)

Next ==
    \/ \E opened \in BOOLEAN : Register(opened)
    \/ \E user_id \in UserIds, failed \in SUBSET ImagePositions :
          Delete(user_id, failed, TRUE)
    \/ \E failed \in SUBSET ImagePositions : GenerateEmbeddings(failed)
    \/ \E failed \in SUBSET ImagePositions, fit_ok \in BOOLEAN :
          TrainClassifier(failed, fit_ok)
    \/ RestartProcess
    \/ \E opened \in BOOLEAN : StartSession(opened)
    \/ \E cause \in {"quit", "read_failure"} : EndSession(cause)
    \/ FrameStepCoarse
    \/ FrameException

\* The whole system: registry, builder, trainer and recognition sessions. The
\* image directories are removable (SpecRegistry has the removals that fail).
Spec == Init /\ [][Next]_vars

NextRegistry ==
    \/ \E opened \in BOOLEAN : Register(opened)
    \/ \E user_id \in UserIds, failed \in SUBSET ImagePositions, rm_ok \in BOOLEAN :
          Delete(user_id, failed, rm_ok)
    \/ \E failed \in SUBSET ImagePositions : GenerateEmbeddings(failed)

\* The registry and the stores under registrations, deletions (the removal of
\* the image directory succeeding or failing) and rebuilds.
SpecRegistry == Init /\ [][NextRegistry]_vars

\* One recognition session, second by second, of a system in which two
\* subjects are enrolled, their descriptors built and the classifier trained.
InitGate ==
    /\ users_json = <<[id |-> 1, name |-> 1], [id |-> 2, name |-> 2]>>
    /\ registrations = 2
    /\ images_dir = {1, 2}
    /\ user_dirs = {1, 2}
    /\ embeddings_pkl = <<[id |-> 1, name |-> 1], [id |-> 2, name |-> 2]>>
    /\ classifier_pkl = {[id |-> 1, name |-> 1], [id |-> 2, name |-> 2]}
    /\ _classifier_bundle = {}
    /\ access_log = <<>>
    /\ now = 0
    /\ session = "idle"
    /\ active_user_ids = {}
    /\ filtered_embeddings = <<>>
    /\ classifier = {}
    /\ prev_face_roi_gray = FALSE
    /\ static_frames = 0
    /\ last_recognized_user_id = NoId
    /\ pending_user_id = NoId
    /\ pending_start_time = NoTime
    /\ match = NoMatch
    /\ is_live = "None"
    /\ emitted = FALSE
    /\ returned_ids = <<1, 2>>
    /\ run_start = NoTime
    /\ live_run_start = NoTime
    /\ live_run_events = 0
    /\ session_log_base = 0
    /\ other_since_event = FALSE
    /\ crop_in = "none"
    /\ same_run = 0
    /\ last_call = NoCall
    /\ NoQuery
    /\ NoEnrollment
    /\ empty_warnings = 0
    /\ frame_steps = <<>>
    /\ write_failed = FALSE
    /\ NoLogFile
    /\ NoOutcome
    /\ NoNormalisation
    /\ NoTraining

NextGate ==
    \/ \E opened \in BOOLEAN : StartSession(opened)
    \/ FrameStep

SpecGate == InitGate /\ [][NextGate]_vars

\* Training runs over the datasets of a system in which two subjects are
\* enrolled: every number of descriptors per subject up to MaxSamples.
InitTrain ==
    /\ users_json = <<[id |-> 1, name |-> 1], [id |-> 2, name |-> 2]>>
    /\ registrations = 2
    /\ images_dir = {1, 2}
    /\ user_dirs = {1, 2}
    /\ embeddings_pkl = <<[id |-> 1, name |-> 1], [id |-> 2, name |-> 2]>>
    /\ classifier_pkl = {}
    /\ _classifier_bundle = {}
    /\ access_log = <<>>
    /\ now = 0
    /\ session = "idle"
    /\ active_user_ids = {}
    /\ filtered_embeddings = <<>>
    /\ classifier = {}
    /\ prev_face_roi_gray = FALSE
    /\ static_frames = 0
    /\ last_recognized_user_id = NoId
    /\ pending_user_id = NoId
    /\ pending_start_time = NoTime
    /\ match = NoMatch
    /\ is_live = "None"
    /\ emitted = FALSE
    /\ returned_ids = <<1, 2>>
    /\ run_start = NoTime
    /\ live_run_start = NoTime
    /\ live_run_events = 0
    /\ session_log_base = 0
    /\ other_since_event = FALSE
    /\ crop_in = "none"
    /\ same_run = 0
    /\ last_call = NoCall
    /\ NoQuery
    /\ NoEnrollment
    /\ empty_warnings = 0
    /\ frame_steps = <<>>
    /\ write_failed = FALSE
    /\ NoLogFile
    /\ NoOutcome
    /\ NoNormalisation
    /\ y_counts \in [UserIds -> 0..MaxSamples]
    /\ stratify = "unset"
    /\ train_outcome = "unset"

NextTrain == TrainOnDataset

SpecTrain == InitTrain /\ [][NextTrain]_vars

\* Sessions and training runs of a process started when two subjects had
\* been enrolled and the classifier trained, then the second subject
\* deleted, a third one enrolled (under the freed id) and the descriptors
\* rebuilt: the persisted bundle is that of the first two subjects.
InitCache ==
    /\ users_json = <<[id |-> 1, name |-> 1], [id |-> 2, name |-> 3]>>
    /\ registrations = 3
    /\ images_dir = {1, 2}
    /\ user_dirs = {1, 2}
    /\ embeddings_pkl = <<[id |-> 1, name |-> 1], [id |-> 2, name |-> 3]>>
    /\ classifier_pkl = {[id |-> 1, name |-> 1], [id |-> 2, name |-> 2]}
    /\ _classifier_bundle = {}
    /\ access_log = <<>>
    /\ now = 0
    /\ session = "idle"
    /\ active_user_ids = {}
    /\ filtered_embeddings = <<>>
    /\ classifier = {}
    /\ prev_face_roi_gray = FALSE
    /\ static_frames = 0
    /\ last_recognized_user_id = NoId
    /\ pending_user_id = NoId
    /\ pending_start_time = NoTime
    /\ match = NoMatch
    /\ is_live = "None"
    /\ emitted = FALSE
    /\ returned_ids = <<1, 2, 2>>
    /\ run_start = NoTime
    /\ live_run_start = NoTime
    /\ live_run_events = 0
    /\ session_log_base = 0
    /\ other_since_event = FALSE
    /\ crop_in = "none"
    /\ same_run = 0
    /\ last_call = NoCall
    /\ NoQuery
    /\ NoEnrollment
    /\ empty_warnings = 0
    /\ frame_steps = <<>>
    /\ write_failed = FALSE
    /\ NoLogFile
    /\ NoOutcome
    /\ NoNormalisation
    /\ NoTraining

NextCache ==
    \/ \E opened \in BOOLEAN : StartSession(opened)
    \/ \E cause \in {"quit", "read_failure"} : EndSession(cause)
    \/ \E failed \in SUBSET ImagePositions, fit_ok \in BOOLEAN :
          TrainClassifier(failed, fit_ok)
    \/ RestartProcess
    \/ FrameStepCoarse

SpecCache == InitCache /\ [][NextCache]_vars

\* -------------------------------------------------------- capture_faces.py
\* capture_user_faces up to its loop; opened = cap.isOpened(). The user is
\* registered and its directory created only when the device opened.
EnrollStart(n, opened) ==
    /\ session = "idle"
    /\ IF opened
       THEN /\ registrations < MaxRegistrations
            /\ get_next_user_id(users_json) \in UserIds
            /\ registrations' = registrations + 1
            /\ register_user(registrations + 1)
            /\ user_dirs' = user_dirs \cup {get_next_user_id(users_json)}
            /\ UNCHANGED images_dir
            /\ session' = "enrolling"
            /\ enroll_user_id' = get_next_user_id(users_json)
            /\ num_images' = n
            /\ captured' = 0
            /\ frame_count' = 0
            /\ live_stable_frames' = 0
            /\ captured_now' = FALSE
            /\ live_streak' = 0
            /\ prev_face_roi_gray' = FALSE
            /\ static_frames' = 0
            /\ is_live' = "None"
            /\ crop_in' = "none"
            /\ same_run' = 0
            /\ frame_steps' = <<>>
            /\ last_call' = NoCall
            /\ exit_path' = "none"
       ELSE /\ UNCHANGED <<registry, session, enroll, prev_face_roi_gray,
                           static_frames, is_live, crop_in, same_run, frame_steps>>
            /\ last_call' = Call("capture_user_faces", {}, 0, FALSE)
            /\ exit_path' = "not_opened"
    /\ cap_held' = opened
    /\ returned' = NoId
    /\ UNCHANGED <<stores, _classifier_bundle, access_log, now, gate_state, query,
                   csv, train, norms>>

\* capture_user_faces with the device opened, when register_user (stage =
\* "register_user": the registry is not written) or _create_user_image_dir
\* (stage = "_create_user_image_dir": the user is registered, the directory
\* is not created) raises. Both calls precede the try block whose finally
\* releases the device.
EnrollRegisterFailure(stage) ==
    /\ session = "idle"
    /\ registrations < MaxRegistrations
    /\ get_next_user_id(users_json) \in UserIds
    /\ registrations' = registrations + 1
    /\ IF stage = "register_user"
       THEN UNCHANGED <<users_json, returned_ids>>
       ELSE register_user(registrations + 1)
    /\ cap_held' = TRUE
    /\ exit_path' = "raised"
    /\ returned' = NoId
    /\ last_call' = Call("capture_user_faces:raised", {}, 0, TRUE)
    /\ UNCHANGED <<images_dir, user_dirs, stores, _classifier_bundle, access_log,
                   now, session, loop, query, enroll, csv, train, norms>>

\* capture_user_faces after its loop: a user without a captured image is
\* deleted again; images is the image store the loop left; rm_ok as in
\* delete_user.
EnrollPostLoop(captured_after, images, rm_ok) ==
    IF captured_after = 0
    THEN delete_user(enroll_user_id, TRUE, rm_ok)
    ELSE /\ images_dir' = images
         /\ UNCHANGED <<users_json, user_dirs>>

\* Variant that returns the id also when nothing was captured.
EnrollResult_AlwaysId(captured_after, user_id) == user_id

\* What capture_user_faces returns after its loop.
EnrollResult(captured_after, user_id) ==
    IF captured_after = 0 THEN NoId ELSE user_id

\* The steps of a loop iteration of capture_user_faces, in source order:
\* "represent" (94-109), "liveness" (125-157), "capture" (177-180).
EnrollFrameSteps(roi, capture) ==
    <<"represent">>
    \o (IF roi THEN <<"liveness">> ELSE <<>>)
    \o (IF capture THEN <<"capture">> ELSE <<>>)

\* Variant that leaves the loop on the quit key only.
EnrollStops_OnlyQuit(capture, new_captured, n, quit) == quit

\* The loop is left when a capture reaches the target count, or on the quit
\* key.
EnrollStops(capture, new_captured, n, quit) ==
    (capture /\ new_captured >= n) \/ quit

\* One iteration of the loop of capture_user_faces, and what follows the
\* loop when the iteration leaves it. reps, box_ok, similar as in Frame;
\* quit: the quit key was pressed; rm_ok: as in delete_user, an input of the
\* iterations that end the session with nothing captured.
EnrollFrame(reps, box_ok, similar, quit, rm_ok) ==
    LET got == reps = "face"
        roi == got /\ box_ok
        new_static == IF roi
                      THEN StaticFramesUpdate(prev_face_roi_gray, static_frames, similar)
                      ELSE static_frames
        live == IF roi THEN IsLive(new_static) ELSE "None"
        new_stable == IF ~roi THEN live_stable_frames
                      ELSE IF live = "False" THEN 0
                      ELSE live_stable_frames + 1
        has_live_face == live = "True"
        armed == has_live_face /\ new_stable >= STABLE_LIVE_FRAMES
        new_count == IF armed THEN frame_count + 1 ELSE frame_count
        capture == /\ armed
                   /\ new_count % CAPTURE_INTERVAL = 0
                   /\ captured < num_images
        new_captured == IF capture THEN captured + 1 ELSE captured
        new_images == IF capture THEN images_dir \cup {enroll_user_id}
                      ELSE images_dir
        stop == EnrollStops(capture, new_captured, num_images, quit)
        crop == CropOf(roi, prev_face_roi_gray, similar, static_frames)
    IN  /\ session = "enrolling"
        /\ ~rm_ok => (stop /\ new_captured = 0)
        /\ (roi /\ prev_face_roi_gray /\ similar) => static_frames < MaxStaticFrames
        /\ new_stable <= MaxLiveStable
        /\ new_count <= MaxFrameCount
        /\ prev_face_roi_gray' = (prev_face_roi_gray \/ roi)
        /\ static_frames' = new_static
        /\ is_live' = live
        /\ live_stable_frames' = new_stable
        /\ frame_count' = new_count
        /\ captured' = new_captured
        /\ captured_now' = capture
        /\ live_streak' = IF ~has_live_face THEN 0
                          ELSE IF live_streak < STABLE_LIVE_FRAMES
                          THEN live_streak + 1 ELSE live_streak
        /\ crop_in' = crop
        /\ same_run' = SameRunUpdate(same_run, crop)
        /\ frame_steps' = EnrollFrameSteps(roi, capture)
        /\ IF stop
           THEN /\ session' = "idle"
                /\ EnrollPostLoop(new_captured, new_images, rm_ok)
                /\ last_call' = Call("capture_user_faces", {}, 0, TRUE)
                /\ cap_held' = FALSE
                /\ exit_path' = IF capture /\ new_captured >= num_images
                                THEN "target" ELSE "quit"
                /\ returned' = EnrollResult(new_captured, enroll_user_id)
           ELSE /\ images_dir' = new_images
                /\ last_call' = NoCall
                /\ NotAnExit
                /\ UNCHANGED <<session, users_json, user_dirs>>
        /\ UNCHANGED <<registrations, returned_ids, stores, _classifier_bundle,
                       access_log, now, gate_state, query, enroll_user_id,
                       num_images, csv, train, norms>>

EnrollFrameStep ==
    \E quit, rm_ok \in BOOLEAN :
        \/ \E reps \in {"noface", "error"} : EnrollFrame(reps, FALSE, FALSE, quit, rm_ok)
        \/ EnrollFrame("face", FALSE, FALSE, quit, rm_ok)
        \/ \E similar \in BOOLEAN : EnrollFrame("face", TRUE, similar, quit, rm_ok)

\* cap.read() fails at the start of an iteration: the loop is left.
EnrollReadFailure(rm_ok) ==
    /\ session = "enrolling"
    /\ ~rm_ok => captured = 0
    /\ session' = "idle"
    /\ EnrollPostLoop(captured, images_dir, rm_ok)
    /\ last_call' = Call("capture_user_faces", {}, 0, TRUE)
    /\ cap_held' = FALSE
    /\ exit_path' = "read_failure"
    /\ returned' = EnrollResult(captured, enroll_user_id)
    /\ UNCHANGED <<registrations, returned_ids, stores, _classifier_bundle,
                   access_log, now, loop, query, enroll, csv, train, norms>>

\* A call inside the loop raises an exception that the loop does not catch
\* (the try has a finally and no except): the function is left through the
\* finally block, without reaching the code after the loop.
EnrollException ==
    /\ session = "enrolling"
    /\ session' = "idle"
    /\ last_call' = Call("capture_user_faces:raised", {}, 0, TRUE)
    /\ cap_held' = FALSE
    /\ exit_path' = "raised"
    /\ returned' = NoId
    /\ UNCHANGED <<registry, stores, _classifier_bundle, access_log, now, loop,
                   query, enroll, csv, train, norms>>

\* Enrollment sessions of a system in which one subject is enrolled and its
\* descriptors built.
InitEnroll ==
    /\ users_json = <<[id |-> 1, name |-> 1]>>
    /\ registrations = 1
    /\ images_dir = {1}
    /\ user_dirs = {1}
    /\ embeddings_pkl = <<[id |-> 1, name |-> 1]>>
    /\ classifier_pkl = {}
    /\ _classifier_bundle = {}
    /\ access_log = <<>>
    /\ now = 0
    /\ session = "idle"
    /\ active_user_ids = {}
    /\ filtered_embeddings = <<>>
    /\ classifier = {}
    /\ prev_face_roi_gray = FALSE
    /\ static_frames = 0
    /\ last_recognized_user_id = NoId
    /\ pending_user_id = NoId
    /\ pending_start_time = NoTime
    /\ match = NoMatch
    /\ is_live = "None"
    /\ emitted = FALSE
    /\ returned_ids = <<1>>
    /\ run_start = NoTime
    /\ live_run_start = NoTime
    /\ live_run_events = 0
    /\ session_log_base = 0
    /\ other_since_event = FALSE
    /\ crop_in = "none"
    /\ same_run = 0
    /\ last_call = NoCall
    /\ NoQuery
    /\ NoEnrollment
    /\ empty_warnings = 0
    /\ frame_steps = <<>>
    /\ write_failed = FALSE
    /\ NoLogFile
    /\ NoOutcome
    /\ NoNormalisation
    /\ NoTraining

NextEnroll ==
    \/ \E n \in 0..MaxNumImages, opened \in BOOLEAN : EnrollStart(n, opened)
    \/ EnrollFrameStep
    \/ \E rm_ok \in BOOLEAN : EnrollReadFailure(rm_ok)
    \/ EnrollException
    \/ \E stage \in {"register_user", "_create_user_image_dir"} :
          EnrollRegisterFailure(stage)

SpecEnroll == InitEnroll /\ [][NextEnroll]_vars

\* One session, frame by frame, of a system in which one subject is enrolled
\* and its descriptors built: a recognition session at the entry of its
\* loop, or the enrollment of a second subject (num_images = n) at the entry
\* of its loop.
InitFrames ==
    \E start \in {[session |-> "running", n |-> 0]} \cup
                 {[session |-> "enrolling", n |-> k] : k \in 0..MaxNumImages} :
        LET enrolling == start.session = "enrolling"
            first == <<[id |-> 1, name |-> 1]>>
        IN  /\ users_json = IF enrolling THEN Append(first, [id |-> 2, name |-> 2])
                            ELSE first
            /\ registrations = IF enrolling THEN 2 ELSE 1
            /\ images_dir = {1}
            /\ user_dirs = IF enrolling THEN {1, 2} ELSE {1}
            /\ embeddings_pkl = first
            /\ classifier_pkl = {}
            /\ _classifier_bundle = {}
            /\ access_log = <<>>
            /\ now = 0
            /\ session = start.session
            /\ active_user_ids = IF enrolling THEN {} ELSE {1}
            /\ filtered_embeddings = IF enrolling THEN <<>> ELSE first
            /\ classifier = {}
            /\ prev_face_roi_gray = FALSE
            /\ static_frames = 0
            /\ last_recognized_user_id = NoId
            /\ pending_user_id = NoId
            /\ pending_start_time = NoTime
            /\ match = NoMatch
            /\ is_live = "None"
            /\ emitted = FALSE
            /\ returned_ids = IF enrolling THEN <<1, 2>> ELSE <<1>>
            /\ run_start = NoTime
            /\ live_run_start = NoTime
            /\ live_run_events = 0
            /\ session_log_base = 0
            /\ other_since_event = FALSE
            /\ crop_in = "none"
            /\ same_run = 0
            /\ last_call = IF enrolling THEN NoCall
                           ELSE Call("recognize_from_camera", {}, 0, TRUE)
            /\ NoQuery
            /\ enroll_user_id = IF enrolling THEN 2 ELSE NoId
            /\ num_images = start.n
            /\ captured = 0
            /\ frame_count = 0
            /\ live_stable_frames = 0
            /\ captured_now = FALSE
            /\ live_streak = 0
            /\ empty_warnings = 0
            /\ frame_steps = <<>>
            /\ write_failed = FALSE
            /\ NoLogFile
            /\ cap_held = TRUE
            /\ exit_path = "none"
            /\ returned = NoId
            /\ NoTraining
            /\ NoNormalisation

NextFrames ==
    \/ EnrollFrameStep
    \/ \E rm_ok \in BOOLEAN : EnrollReadFailure(rm_ok)
    \/ FrameStep
    \/ \E cause \in {"quit", "read_failure"} : EndSession(cause)

SpecFrames == InitFrames /\ [][NextFrames]_vars

\* Queries to the Match Engine and to _find_best_match in a session started
\* after two subjects were enrolled and their descriptors built, the
\* classifier trained or not, and the subjects in deleted removed from the
\* registry (descriptors and classifier left as they were).
InitMatch ==
    \E deleted \in SUBSET UserIds, trained \in BOOLEAN :
        LET all == <<[id |-> 1, name |-> 1], [id |-> 2, name |-> 2]>>
            bundle == IF trained THEN Range(all) ELSE {}
        IN  /\ users_json = SelectSeq(all, LAMBDA u : u.id \notin deleted)
            /\ registrations = 2
            /\ images_dir = UserIds \ deleted
            /\ user_dirs = UserIds \ deleted
            /\ embeddings_pkl = all
            /\ classifier_pkl = bundle
            /\ _classifier_bundle = bundle
            /\ access_log = <<>>
            /\ now = 0
            /\ session = "running"
            /\ active_user_ids = UserIds \ deleted
            /\ filtered_embeddings = FilterEmbeddings(all, UserIds \ deleted)
            /\ classifier = bundle
            /\ prev_face_roi_gray = FALSE
            /\ static_frames = 0
            /\ last_recognized_user_id = NoId
            /\ pending_user_id = NoId
            /\ pending_start_time = NoTime
            /\ match = NoMatch
            /\ is_live = "None"
            /\ emitted = FALSE
            /\ returned_ids = <<1, 2>>
            /\ run_start = NoTime
            /\ live_run_start = NoTime
            /\ live_run_events = 0
            /\ session_log_base = 0
            /\ other_since_event = FALSE
            /\ crop_in = "none"
            /\ same_run = 0
            /\ last_call = Call("recognize_from_camera", {}, 0, TRUE)
            /\ NoQuery
            /\ NoEnrollment
            /\ empty_warnings = 0
            /\ frame_steps = <<>>
            /\ write_failed = FALSE
            /\ NoLogFile
            /\ cap_held = TRUE
            /\ exit_path = "none"
            /\ returned = NoId
            /\ NoTraining
            /\ NoNormalisation

NextMatch ==
    \/ \E in \in ClassifierInputs(classifier),
          dists \in [1..Len(filtered_embeddings) -> DistValues] :
          MatchEngineQuery(in, dists)
    \/ \E dists \in [1..Len(filtered_embeddings) -> DistValues],
          threshold \in Thresholds :
          FindBestMatchQuery(dists, threshold)

SpecMatch == InitMatch /\ [][NextMatch]_vars

\* The normalisation of _find_best_match applied to vectors of every norm
\* of NormValues, in a session as SpecMatch starts them.
InitNorm ==
    /\ users_json = <<[id |-> 1, name |-> 1], [id |-> 2, name |-> 2]>>
    /\ registrations = 2
    /\ images_dir = {1, 2}
    /\ user_dirs = {1, 2}
    /\ embeddings_pkl = <<[id |-> 1, name |-> 1], [id |-> 2, name |-> 2]>>
    /\ classifier_pkl = {}
    /\ _classifier_bundle = {}
    /\ access_log = <<>>
    /\ now = 0
    /\ session = "running"
    /\ active_user_ids = {1, 2}
    /\ filtered_embeddings = <<[id |-> 1, name |-> 1], [id |-> 2, name |-> 2]>>
    /\ classifier = {}
    /\ prev_face_roi_gray = FALSE
    /\ static_frames = 0
    /\ last_recognized_user_id = NoId
    /\ pending_user_id = NoId
    /\ pending_start_time = NoTime
    /\ match = NoMatch
    /\ is_live = "None"
    /\ emitted = FALSE
    /\ returned_ids = <<1, 2>>
    /\ run_start = NoTime
    /\ live_run_start = NoTime
    /\ live_run_events = 0
    /\ session_log_base = 0
    /\ other_since_event = FALSE
    /\ crop_in = "none"
    /\ same_run = 0
    /\ last_call = Call("recognize_from_camera", {}, 0, TRUE)
    /\ NoQuery
    /\ NoEnrollment
    /\ empty_warnings = 0
    /\ frame_steps = <<>>
    /\ write_failed = FALSE
    /\ NoLogFile
    /\ cap_held = TRUE
    /\ exit_path = "none"
    /\ returned = NoId
    /\ NoTraining
    /\ norm_of = "none"
    /\ vec_norm \in NormValues
    /\ norm_once = NoNorm
    /\ norm_twice = NoNorm

NextNorm == \E of \in {"db_vectors", "query_embedding"} : NormalizeTwice(of)

SpecNorm == InitNorm /\ [][NextNorm]_vars

\* ------------------------------------------------------------------ claims
EventSubject(e) == [id |-> e.user_id, name |-> e.name]

\* C1: in a recognition session, on every frame, the match produced by the
\* Match Engine (classifier path or distance path) has a subject id of the
\* active-subject set built at session start; no other id reaches the
\* Stability Gate (pending candidate) or the Access Logger (session events).
C1_MatchIsActive ==
    session = "running" =>
        /\ match # NoMatch => match.id \in active_user_ids
        /\ pending_user_id # NoId => pending_user_id \in active_user_ids
        /\ \A i \in 1..Len(SessionEvents) :
              SessionEvents[i].user_id \in active_user_ids

\* C1 witness: an access event was logged in a session whose classifier
\* still knows an id that is not active.
C1_Witness ==
    /\ session = "running"
    /\ emitted
    /\ \E r \in classifier : r.id \notin active_user_ids

\* C2: once a subject is deleted, no later session returns a match or logs
\* an access event attributed to it: every match and every event of a
\* session names a subject (id and name) that is in the registry.
C2_NoMatchForDeletedSubject ==
    session = "running" =>
        /\ match # NoMatch => match \in Range(users_json)
        /\ \A i \in 1..Len(SessionEvents) :
              EventSubject(SessionEvents[i]) \in Range(users_json)

\* C3: register never returns an id it returned before, and every returned
\* id is greater than all ids returned earlier.
C3_IdsStrictlyIncreasing ==
    \A i, j \in 1..Len(returned_ids) : i < j => returned_ids[i] < returned_ids[j]

\* Number of events of this session for a subject id.
EventsFor(id) ==
    Cardinality({i \in 1..Len(SessionEvents) : SessionEvents[i].user_id = id})

\* C4: a run of live frames with accepted id A, in a session that had not
\* confirmed A before the run, emits no event before the run has lasted the
\* stability window, and exactly one once it has, however long it goes on.
C4_ExactlyOneEventPerLiveRun ==
    (session = "running" /\ live_run_start # NoTime
        /\ EventsFor(match.id) = live_run_events) =>
        /\ live_run_events <= 1
        /\ emitted => now - live_run_start >= STABILITY_SECONDS
        /\ now - live_run_start >= STABILITY_SECONDS => live_run_events = 1

\* C5: in a stream of frames whose accepted ids alternate, no frame emits an
\* access event: a frame whose accepted id differs from the accepted id of
\* the frame before it never confirms.
C5_NoEventOnIdChange ==
    [][(session = "running" /\ session' = "running"
          /\ match # NoMatch /\ match' # NoMatch /\ match'.id # match.id)
       => ~emitted']_vars

\* C6: an access event for X is emitted only when every frame since the one
\* that started the window, at least the stability window ago, had X as its
\* accepted match.
C6_EventOnlyAfterContinuousWindow ==
    emitted => (run_start # NoTime /\ now - run_start >= STABILITY_SECONDS)

\* C7: a frame classified static leaves the Stability Gate idle (no pending
\* candidate, no window start), also when it carries an accepted match.
C7_StaticFrameResetsGate ==
    (session = "running" /\ is_live = "False") =>
        (pending_user_id = NoId /\ pending_start_time = NoTime)

\* C8: a frame with no accepted match (no match, no face, extraction
\* failure) leaves the Stability Gate idle.
C8_NoMatchFrameResetsGate ==
    (session = "running" /\ match = NoMatch) =>
        (pending_user_id = NoId /\ pending_start_time = NoTime)

\* C9: after an access event for A, a further event for A is emitted only
\* if a frame with a different accepted id has occurred since.
C9_NoRepeatWithoutOtherId ==
    [][(Len(access_log') > Len(access_log) /\ LastEventId # NoId
          /\ access_log'[Len(access_log')].user_id = LastEventId)
       => other_since_event]_vars

\* C9 witness: after its event, A was matched again on live frames for a
\* whole stability window with no other id in between, and nothing was
\* emitted.
C9_Witness ==
    /\ session = "running"
    /\ match # NoMatch /\ LastEventId = match.id
    /\ ~other_since_event
    /\ live_run_start # NoTime /\ now - live_run_start >= STABILITY_SECONDS
    /\ live_run_events = 0

\* C10: after an event for A and a later frame with another accepted id, A
\* matched on live frames for the stability window has a new event emitted
\* (so the state where that run has lasted the window and A's event is
\* still the session's last one, older than the interruption, never occurs).
C10_RetriggerAfterInterruption ==
    ~(/\ session = "running"
      /\ match # NoMatch /\ LastEventId = match.id
      /\ other_since_event
      /\ live_run_start # NoTime /\ now - live_run_start >= STABILITY_SECONDS)

\* C11: in a sequence of identical face crops that starts from an empty
\* filter, a frame is classified static exactly when it is the 10th crop of
\* the sequence or a later one (crops 1-9 live, crops 10, 11, 12 static).
C11_StaticFromTenthIdenticalCrop ==
    (session = "running" /\ same_run >= 1 /\ crop_in # "none") =>
        (is_live = "False" <=> same_run >= LIVENESS_STATIC_FRAMES)

\* C12: on every frame with a usable crop, the static counter is incremented
\* by one if a previous crop exists and the difference is below the
\* threshold, and is reset to 0 otherwise (differing crop, or no previous
\* crop); the crop becomes the previous crop; a differing crop, after any
\* number of static frames, makes its frame live.
C12_StaticCounterUpdate ==
    [][(session = "running" /\ session' = "running") =>
          /\ crop_in' = "same" =>
                (prev_face_roi_gray /\ static_frames' = static_frames + 1)
          /\ crop_in' \in {"diff", "diff_static"} =>
                (prev_face_roi_gray /\ static_frames' = 0 /\ is_live' = "True")
          /\ crop_in' = "first" => (~prev_face_roi_gray /\ static_frames' = 0)
          /\ crop_in' # "none" => prev_face_roi_gray']_vars

\* C12 witness: a differing crop right after a crop classified static, its
\* frame live and the counter back at 0.
C12_Witness ==
    /\ session = "running"
    /\ crop_in = "diff_static"
    /\ static_frames = 0
    /\ is_live = "True"

\* C13: with a classifier bundle, the Match Engine's result is the
\* classifier's top class if and only if its confidence is >= 0.8 and the
\* predicted id is active; in every other case (low confidence, inactive
\* predicted id, classifier error, no bundle) the result is that of the
\* distance search alone.
C13_ClassifierAcceptedIffConfidentAndActive ==
    last_call.op = "match_engine" =>
        LET accepted == /\ classifier # {}
                        /\ ~q_in.raises
                        /\ q_in.best_proba >= CLASSIFIER_MIN_PROBA
                        /\ q_in.predicted_id \in active_user_ids
        IN  IF accepted
            THEN /\ q_match.id = q_in.predicted_id
                 /\ q_match \in classifier
            ELSE q_match = IF filtered_embeddings = <<>> THEN NoMatch
                           ELSE _find_best_match(q_dists, filtered_embeddings,
                                                 DEFAULT_THRESHOLD)

\* C13 witness: the classifier predicted a deleted subject with enough
\* confidence and the result is the distance search's match.
C13_Witness ==
    /\ last_call.op = "match_engine"
    /\ ~q_in.raises
    /\ q_in.best_proba >= CLASSIFIER_MIN_PROBA
    /\ q_in.predicted_id \in UserIds \ active_user_ids
    /\ q_match # NoMatch

\* C14: over a non-empty reference set, _find_best_match returns the
\* smallest distance and, if and only if that distance is strictly below
\* the threshold, a record at that distance (else no match); over an empty
\* reference set it returns no match.
C14_MinimumDistanceStrictlyBelowThreshold ==
    last_call.op = "_find_best_match" =>
        IF filtered_embeddings = <<>>
        THEN q_best = [match |-> NoMatch, dist |-> NoDist]
        ELSE /\ \E i \in DOMAIN q_dists : q_dists[i] = q_best.dist
             /\ \A i \in DOMAIN q_dists : q_best.dist <= q_dists[i]
             /\ q_best.dist < q_threshold =>
                    \E i \in DOMAIN q_dists :
                        /\ q_dists[i] = q_best.dist
                        /\ filtered_embeddings[i] = q_best.match
             /\ q_best.dist >= q_threshold => q_best.match = NoMatch

\* C14 witness: distances 0.3 to subject 1 and 0.9 to subject 2 with
\* threshold 0.6 returned subject 1 with distance 0.3.
C14_Witness ==
    /\ last_call.op = "_find_best_match"
    /\ Len(filtered_embeddings) = 2
    /\ q_dists = <<30, 90>>
    /\ q_threshold = DEFAULT_THRESHOLD
    /\ q_best = [match |-> [id |-> 1, name |-> 1], dist |-> 30]

\* C15: however an enrollment session ends (quit key, frame-read failure,
\* exception raised inside the capture loop), if no image was captured the
\* subject registered at its start is not in the registry afterwards and
\* its image directory does not exist.
C15_RollbackWhenNothingCaptured ==
    (/\ session = "idle"
     /\ last_call.op \in {"capture_user_faces", "capture_user_faces:raised"}
     /\ last_call.opened
     /\ captured = 0) =>
        (enroll_user_id \notin Ids(users_json) /\ enroll_user_id \notin user_dirs)

\* C16: a call of capture_user_faces or recognize_from_camera that finds the
\* capture device not opened leaves the registry, the image store, the
\* access log and the descriptor and classifier stores as they were.
C16_FailedOpenChangesNothing ==
    [][(last_call'.op \in {"capture_user_faces", "recognize_from_camera"}
          /\ ~last_call'.opened)
       => UNCHANGED <<users_json, images_dir, user_dirs, access_log,
                      embeddings_pkl, classifier_pkl>>]_vars

\* C16 witness: an enrollment found the device not opened in a system that
\* has a subject and its descriptors.
C16_Witness ==
    /\ last_call.op = "capture_user_faces"
    /\ ~last_call.opened
    /\ users_json # <<>>
    /\ embeddings_pkl # <<>>

\* C17: an image is captured only on a frame classified live that is the
\* last of at least 5 consecutive live frames (no static frame and no frame
\* without a detected face among the 5 most recent frames).
C17_CaptureOnlyAfterFiveLiveFrames ==
    captured_now => (is_live = "True" /\ live_streak >= STABLE_LIVE_FRAMES)

\* C18: the number of captured images never exceeds num_images, a frame
\* captures at most one image, and for num_images >= 1 the session ends on
\* the frame on which the count reaches num_images.
C18_CaptureBound ==
    [][/\ captured' <= num_images'
       /\ session = "enrolling" => captured' <= captured + 1
       /\ (session' = "enrolling" /\ num_images' >= 1) => captured' < num_images']_vars

\* C18 witness: an enrollment with num_images = 2 ended on the frame that
\* captured its second image.
C18_Witness ==
    /\ session = "idle"
    /\ last_call.op = "capture_user_faces"
    /\ captured_now
    /\ num_images = 2
    /\ captured = 2

\* The operations that run the Embedding Builder.
BuilderOps == {"generate_embeddings", "_delete_selected_user", "train_classifier"}

\* C19: after any run of the Embedding Builder (in particular the one that
\* follows a deletion, also of the only subject with images) the persisted
\* descriptor set holds only records built from the current image
\* inventory, so none of a deleted subject.
C19_BuiltSetOnlyFromCurrentInventory ==
    last_call.op \in BuilderOps =>
        Range(embeddings_pkl) \subseteq Range(_collect_image_paths(users_json, images_dir))

C21_SingleSampleClassDisablesStratification ==
    (train_outcome \notin {"unset", "empty"}
        /\ \E u \in Classes(y_counts) : y_counts[u] < 2) =>
        (stratify = "None" /\ train_outcome # "split_raised")

\* C22: once the capture device has been opened by a recognition or an
\* enrollment call, the device and the display resources are released
\* before the call returns or raises, on every exit path (quit key,
\* frame-read failure, target reached, exception in any step, failure of
\* the registration made after the device was opened): whenever no session
\* call is in progress, the device the last one opened is not held.
C22_ReleasedOnEveryExitPath ==
    session = "idle" => ~cap_held

\* C23: a recognition session ends only by the quit key or by a frame-read
\* failure: no error of a frame (extraction, classifier, distance search
\* over a malformed or dimension-mismatched reference record, liveness,
\* rendering) ends it.
C23_SessionEndsOnlyByQuitOrDeviceLoss ==
    [][(session = "running" /\ session' = "idle") =>
          exit_path' \in {"quit", "read_failure"}]_vars

\* C24: the first write to an absent audit store creates it with the header
\* row, and a write to an existing store adds no header: after any sequence
\* of logger writes the store is absent (no write yet) or consists of one
\* header row, at its top, and one row per logged event.
C24_OneHeaderThenOneRowPerEvent ==
    /\ csv_exists <=> log_writes > 0
    /\ ~csv_exists => (access_log = <<>> /\ csv_headers = <<>>)
    /\ csv_exists => csv_headers = <<0>>
    /\ Len(access_log) = log_writes

\* C24 witness: two events were logged and the store has its one header.
C24_Witness ==
    /\ log_writes = 2
    /\ Len(access_log) = 2
    /\ csv_headers = <<0>>

\* C25: a failure while writing an access event is not propagated: the
\* session goes on, and the Stability Gate and the Liveness Filter are in
\* the state a successful write leaves (the confirmed subject recorded, the
\* pending candidate and its start kept, the static counter updated from
\* the crop).
C25_WriteFailureNotPropagated ==
    [][write_failed' =>
          /\ session' = "running"
          /\ last_recognized_user_id' = match'.id
          /\ match'.id = pending_user_id
          /\ UNCHANGED <<pending_user_id, pending_start_time>>
          /\ prev_face_roi_gray'
          /\ static_frames' = StaticFramesUpdate(prev_face_roi_gray, static_frames,
                                                 crop_in' = "same")
          /\ is_live' = "True"]_vars

\* C25 witness: the write of a confirmed subject's event failed, nothing is
\* in the store, and the session runs with that subject recorded as
\* confirmed.
C25_Witness ==
    /\ write_failed
    /\ session = "running"
    /\ ~csv_exists
    /\ last_recognized_user_id = match.id
    /\ last_recognized_user_id # NoId

\* C26: the access audit trail is append-only: across every step of the
\* core (sessions, enrollment, delete, build, train) the rows before the
\* step are a prefix of the rows after it, and the store, once created,
\* stays.
C26_AuditTrailAppendOnly ==
    [][/\ Len(access_log') >= Len(access_log)
       /\ SubSeq(access_log', 1, Len(access_log)) = access_log
       /\ csv_exists => csv_exists']_vars

\* C26 witness: the subject of a logged event was deleted afterwards and
\* the event is still the first row of the trail, under a second event.
C26_Witness ==
    /\ Len(access_log) = 2
    /\ access_log[1].user_id \notin Ids(users_json)
    /\ access_log[2].user_id \in Ids(users_json)

\* C27: a recognition session leaves the persisted descriptor set, the
\* persisted classifier bundle, the registry and the image store unchanged,
\* and its in-memory descriptor set and active-subject set stay the same
\* from its first frame to its end.
C27_SessionLeavesStoresUnchanged ==
    [][(session = "running" \/ session' = "running") =>
          /\ UNCHANGED <<users_json, images_dir, user_dirs, embeddings_pkl,
                         classifier_pkl>>
          /\ (session = "running" /\ session' = "running") =>
                UNCHANGED <<filtered_embeddings, active_user_ids>>]_vars

\* C27 witness: a session logged an event while the persisted descriptor
\* set holds a record that the session filtered out.
C27_Witness ==
    /\ session = "running"
    /\ emitted
    /\ \E e \in Range(embeddings_pkl) : e \notin Range(filtered_embeddings)

\* C28: in a session with no descriptors to match against, the
\* empty-reference-set warning is logged once, not once per frame, and a
\* frame yields a match only from an accepted classifier result.
C28_EmptyReferenceSetWarnedOnce ==
    (session = "running" /\ filtered_embeddings = <<>>) =>
        /\ empty_warnings <= 1
        /\ match # NoMatch => match \in classifier

\* C29: a session started after a training run persisted a new bundle uses
\* that bundle, the one in the store when the session started, also when an
\* earlier session of the process had loaded the previous one.
C29_SessionUsesPersistedBundle ==
    session = "running" => classifier = classifier_pkl

\* C30: a call that could not open the capture device returns a value other
\* than the one returned by a session that ran and ended normally: a
\* session left by the quit key, a frame-read failure or the reached target
\* does not return None, the value of the failed open.
C30_FailedOpenDistinguishable ==
    /\ exit_path = "not_opened" => returned = NoId
    /\ exit_path \in {"quit", "read_failure", "target"} => returned # NoId

\* The operations that call delete_user on the application's behalf.
DeleteOps == {"delete_user", "_delete_selected_user"}

\* C31: delete(id) returns true if and only if a subject with that id was
\* in the registry; when it returns false the registry and the image store
\* are unchanged; when it returns true, with image cascade, exactly that
\* subject's record and image directory are removed and every other
\* subject's record and directory are untouched.
C31_DeleteContract ==
    [][last_call'.op \in DeleteOps =>
          LET id == last_call'.user_id
          IN  /\ last_call'.deleted <=> id \in Ids(users_json)
              /\ ~last_call'.deleted =>
                    UNCHANGED <<users_json, images_dir, user_dirs>>
              /\ last_call'.deleted =>
                    /\ users_json' = SelectSeq(users_json, LAMBDA u : u.id # id)
                    /\ Len(users_json') = Len(users_json) - 1
                    /\ images_dir' = images_dir \ {id}
                    /\ user_dirs' = user_dirs \ {id}]_vars

StepsAt(step) == {i \in 1..Len(frame_steps) : frame_steps[i] = step}

\* C33: on every frame, the re-verification of the matched id against the
\* active-subject set is performed before the match is used elsewhere: it
\* precedes the Stability Gate's update and the logging of an access event
\* for that frame's match.
C33_ReverifiedBeforeUse ==
    session = "running" =>
        \A i \in StepsAt("gate") \cup StepsAt("log") :
            \E j \in StepsAt("reverify") : j < i

\* C34: no access event is emitted on a frame whose face region is
\* classified static: every access event is logged on a frame that has an
\* accepted match, a valid clamped face region and a live classification.
C34_EventOnlyOnLiveFrame ==
    emitted =>
        /\ match # NoMatch
        /\ crop_in # "none"
        /\ is_live = "True"

\* C34 witness: an event was logged on the ninth crop in a row that did not
\* differ from the one before it, the last one before the region is
\* classified static.
C34_Witness ==
    /\ emitted
    /\ crop_in = "same"
    /\ static_frames = LIVENESS_STATIC_FRAMES - 1

C36_LoggedAtMostOncePerConfirmation ==
    [][(session = "running" /\ session' = "running") =>
          LET confirmed == last_recognized_user_id' # last_recognized_user_id
              logs == {i \in 1..Len(frame_steps') : frame_steps'[i] = "log"}
              sets == {i \in 1..Len(frame_steps') : frame_steps'[i] = "confirm"}
          IN  /\ Cardinality(logs) = IF confirmed THEN 1 ELSE 0
              /\ \A i \in logs : \E j \in sets : j < i
              /\ confirmed => last_recognized_user_id' = match'.id
              /\ Len(access_log') <= Len(access_log) + Cardinality(logs)
              /\ (write_failed /\ match'.id = match.id) => logs = {}]_vars

\* C36 witness: the write of a subject's event had failed (the subject is
\* recorded as confirmed and the log has no row); a later frame matches the
\* subject still, its window long elapsed, and the logger is not called.
C36_Witness ==
    /\ session = "running"
    /\ StepsAt("gate") # {}
    /\ StepsAt("log") = {}
    /\ last_recognized_user_id = match.id
    /\ match # NoMatch
    /\ access_log = <<>>
    /\ pending_start_time # NoTime
    /\ now - pending_start_time >= 2 * STABILITY_SECONDS

\* C37: after any sequence of register and delete operations the ids of the
\* subjects in the registry are pairwise distinct, and register returns 1
\* for an empty registry and otherwise one more than the largest id in the
\* registry at the time of the call.
C37_IdsDistinctNextIsLargestPlusOne ==
    [][/\ \A i, j \in 1..Len(users_json') :
             i # j => users_json'[i].id # users_json'[j].id
       /\ Len(returned_ids') > Len(returned_ids) =>
             LET new == returned_ids'[Len(returned_ids')]
             IN  /\ IF users_json = <<>> THEN new = 1
                    ELSE /\ \A i \in 1..Len(users_json) : users_json[i].id < new
                         /\ \E i \in 1..Len(users_json) : users_json[i].id = new - 1
                 /\ Len(users_json') = Len(users_json) + 1
                 /\ users_json'[Len(users_json')].id = new]_vars

\* C37 witness: a registration, the deletion of its subject and a second
\* registration: the second one found the registry empty and returned 1,
\* and the registry holds that one subject.
C37_Witness ==
    /\ returned_ids = <<1, 1>>
    /\ Len(users_json) = 1
    /\ users_json[1].id = 1
    /\ last_call.op = "capture_user_faces"

\* C38: capture_user_faces returns the id of the subject it registered if
\* and only if at least one image was captured and the session ended by
\* reaching the target, by the quit key or by a frame-read failure; it
\* returns no id when no image was captured or the device could not be
\* opened; a returned id is present in the registry.
C38_EnrollmentResult ==
    last_call.op \in {"capture_user_faces", "capture_user_faces:raised"} =>
        LET ended == exit_path \in {"target", "quit", "read_failure"}
        IN  /\ returned # NoId <=> (ended /\ captured >= 1)
            /\ returned # NoId =>
                  /\ returned = enroll_user_id
                  /\ returned = returned_ids[Len(returned_ids)]
                  /\ returned \in Ids(users_json)
            /\ (ended /\ captured = 0) => returned = NoId
            /\ exit_path = "not_opened" => returned = NoId

\* C38 witness: an enrollment asked for two images was left by the quit key
\* after the first one and returned the id of its subject.
C38_Witness ==
    /\ last_call.op = "capture_user_faces"
    /\ exit_path = "quit"
    /\ num_images = 2
    /\ captured = 1
    /\ returned = 2
    /\ returned \in Ids(users_json)
====
